---- MODULE Spec2Model ----
(***************************************************************************)
(* A model of client/paper_cli.py, the command-line client of the PaperS3  *)
(* display.  One behaviour of the model is one run of main(): the command  *)
(* line, the environment, standard input and the answers of the remote     *)
(* services are inputs, pc is the position in main().                      *)
(*                                                                         *)
(* Python values: an optional value is a sequence, None = <<>> and a value *)
(* v = <<v>>.  Degrees are integers in thousandths of a degree.  Text that *)
(* the program transforms is a sequence of characters.                     *)
(***************************************************************************)
EXTENDS Integers, Sequences, FiniteSets, TLC

VARIABLES
    args,       \* the command line: argparse's namespace and the raw argv tokens
    env,        \* os.environ: PAPER_IP, STADIA_API_KEY
    world,      \* stdin, the file system, the installed libraries, the geocoder's data
    pc,         \* position in main()
    loc,        \* main()'s local variables
    net,        \* every network call made so far, in order
    out,        \* every message printed so far, in order
    exitCode,   \* None while running, then the process's exit status
    uncaught    \* None, or the exception that left main() uncaught

vars == <<args, env, world, pc, loc, net, out, exitCode, uncaught>>

----------------------------------------------------------------------------
(* Python values *)

None == <<>>
Some(v) == <<v>>

\* bool(x) of an optional string: None and "" are falsy
Truthy(o) == o # None /\ o[1] # ""

\* bool(x) of an optional character sequence or byte string
TruthySeq(o) == o # None /\ o[1] # <<>>

\* a or b
PyOr(a, b) == IF Truthy(a) THEN a ELSE b

\* response.raise_for_status(): raises HTTPError for 4xx and 5xx only
RaisesForStatus(status) == status >= 400 /\ status < 600

\* text is a sequence of code points; str.isspace() holds for these
Whitespace ==
    (9..13) \cup (28..32) \cup {133, 160, 5760} \cup (8192..8202)
        \cup {8232, 8233, 8239, 8287, 12288}

RECURSIVE LStrip(_)
LStrip(s) ==
    IF s # <<>> /\ Head(s) \in Whitespace THEN LStrip(Tail(s)) ELSE s

RECURSIVE RStrip(_)
RStrip(s) ==
    IF s # <<>> /\ s[Len(s)] \in Whitespace
    THEN RStrip(SubSeq(s, 1, Len(s) - 1))
    ELSE s

\* str.strip()
Strip(s) == RStrip(LStrip(s))

\* the number of bytes of the UTF-8 sequence that a byte starts, 0 when the
\* byte starts none
Utf8Length(byte) ==
    IF byte < 128 THEN 1
    ELSE IF byte \in 194..223 THEN 2
    ELSE IF byte \in 224..239 THEN 3
    ELSE IF byte \in 240..244 THEN 4
    ELSE 0

\* bytes.decode('utf-8'), strict: the code points, or None where the codec
\* raises UnicodeDecodeError (a byte that starts no sequence, a sequence cut
\* short, a wrong continuation byte, an overlong form, a surrogate, a value
\* above 0x10FFFF)
RECURSIVE Utf8Decode(_)
Utf8Decode(b) ==
    IF b = <<>> THEN Some(<<>>)
    ELSE LET n == Utf8Length(Head(b))
         IN  IF n = 0 \/ Len(b) < n THEN None
             ELSE IF \E i \in 2..n : b[i] \notin 128..191 THEN None
             ELSE LET cp == CASE n = 1 -> b[1]
                              [] n = 2 -> (b[1] - 192) * 64 + (b[2] - 128)
                              [] n = 3 -> (b[1] - 224) * 4096 + (b[2] - 128) * 64
                                              + (b[3] - 128)
                              [] n = 4 -> (b[1] - 240) * 262144 + (b[2] - 128) * 4096
                                              + (b[3] - 128) * 64 + (b[4] - 128)
                      rest == Utf8Decode(SubSeq(b, n + 1, Len(b)))
                  IN  IF \/ n = 3 /\ (cp < 2048 \/ cp \in 55296..57343)
                         \/ n = 4 /\ (cp < 65536 \/ cp > 1114111)
                      THEN None
                      ELSE IF rest = None THEN None
                      ELSE Some(<<cp>> \o rest[1])

\* TextIOWrapper.read() with newline=None: "\r\n" and "\r" are read as "\n"
RECURSIVE UniversalNewlines(_)
UniversalNewlines(s) ==
    IF s = <<>> THEN <<>>
    ELSE IF Head(s) = 13
    THEN <<10>> \o UniversalNewlines(IF Len(s) > 1 /\ s[2] = 10
                                     THEN Tail(Tail(s)) ELSE Tail(s))
    ELSE <<Head(s)>> \o UniversalNewlines(Tail(s))

----------------------------------------------------------------------------
(* Bounds of the model *)

\* the longest standard input of the stream command, in lines
MaxLines == 2

----------------------------------------------------------------------------
(* The device address and the URLs built from it *)

\* base_url = f"http://{ip}/api"
BaseUrl(ip) == [host |-> ip, prefix |-> "/api"]

\* what a request can come back with: a transport error, or a response
TransportError == [kind |-> "error", status |-> 0]
Response(status) == [kind |-> "response", status |-> status]
StatusCodes == {200, 304, 401, 500}
HttpOutcomes == {TransportError} \cup {Response(s) : s \in StatusCodes}

\* requests.post/get followed by raise_for_status() raised an exception
Failed(o) == o.kind = "error" \/ RaisesForStatus(o.status)

----------------------------------------------------------------------------
(* The inputs of a run *)

\* an image as a byte string: what it decodes to, or that it does not decode
EmptyBytes == [kind |-> "empty", w |-> 0, h |-> 0]
Garbage == [kind |-> "garbage", w |-> 0, h |-> 0]
Picture(kind, w, h) == [kind |-> kind, w |-> w, h |-> h]

\* the files the image command can be pointed at: os.path.isfile, open, read
Paths == {"photo.jpg", "small.jpg", "empty.jpg", "notes.txt", "missing.jpg",
          "locked.jpg", "--force-raw"}
IsFile(path) == path \in Paths \ {"missing.jpg"}
OpenFails(path) == path = "locked.jpg"
FileBytes(path) ==
    CASE path = "photo.jpg" -> Picture("jpeg", 1920, 1080)
      [] path = "small.jpg" -> Picture("png", 100, 50)
      [] path = "--force-raw" -> Picture("jpeg", 1920, 1080)
      [] path = "notes.txt" -> Garbage
      [] OTHER -> EmptyBytes

\* the namespace argparse builds; an attribute a subcommand lacks is None
NoArgs ==
    [command |-> "", ip |-> None, force_raw |-> FALSE, payload |-> None,
     size |-> 3, lat |-> None, lon |-> None, location |-> None, zoom |-> None,
     api_key |-> None, topic |-> None, broker |-> None, port |-> 1883,
     username |-> None, password |-> None]

NoWorld ==
    [isatty |-> TRUE, stdin |-> <<>>, has_pillow |-> TRUE, geo |-> None]

IpArgs == {None, Some(""), Some("10.0.0.1")}
IpEnvs == {None, Some(""), Some("10.0.0.2")}
Envs == [PAPER_IP : IpEnvs, STADIA_API_KEY : {None}]

\* text: the optional payload and what is piped in
TextPayloads == {None, Some(<<>>), Some(<<104, 105>>)}
\* the payload is text (code points), the pipe holds bytes
TextStdins ==
    { <<>>, <<32, 104, 105, 10>>, <<10>>, <<104, 105, 13, 10>>,
      <<12, 104, 13, 105, 194, 160, 226, 128, 131>>,
      <<255, 10>>, <<99, 97, 102, 233, 10>>, <<104, 105, 32, 226, 130>> }
TextScen ==
    { [args |-> [NoArgs EXCEPT !.command = "text", !.ip = i, !.payload = p,
                               !.force_raw = f],
       env |-> e,
       world |-> [NoWorld EXCEPT !.isatty = t, !.stdin = s]] :
      i \in IpArgs, p \in TextPayloads, f \in BOOLEAN, e \in Envs,
      t \in BOOLEAN, s \in TextStdins }

\* image: the optional path, what is piped in, whether Pillow is installed
ImageStdins == {EmptyBytes, Garbage, Picture("jpeg", 1920, 1080)}
ImageScen ==
    { [args |-> [NoArgs EXCEPT !.command = "image", !.ip = i, !.payload = p,
                               !.force_raw = f],
       env |-> e,
       world |-> [NoWorld EXCEPT !.isatty = t, !.stdin = s, !.has_pillow = l]] :
      i \in IpArgs, p \in {None, Some("")} \cup {Some(x) : x \in Paths},
      f \in BOOLEAN, e \in Envs, t \in BOOLEAN, s \in ImageStdins,
      l \in BOOLEAN }

\* stream: the lines of standard input, as code points; only the last line
\* can lack its newline
FullLines == {<<97, 10>>, <<233, 10>>}
LastLines == FullLines \cup {<<97>>}
StreamStdins ==
    UNION { {s \in [1..n -> LastLines] :
                \A k \in 1..(n - 1) : s[k] \in FullLines} : n \in 0..MaxLines }
StreamScen ==
    { [args |-> [NoArgs EXCEPT !.command = "stream", !.ip = i, !.force_raw = f],
       env |-> e,
       world |-> [NoWorld EXCEPT !.stdin = s]] :
      i \in IpArgs, f \in BOOLEAN, e \in Envs, s \in StreamStdins }

\* mqtt: the required and the optional settings
MqttScen ==
    { [args |-> [NoArgs EXCEPT !.command = "mqtt", !.ip = i, !.force_raw = f,
                               !.topic = t, !.broker = b,
                               !.username = u, !.password = w],
       env |-> e,
       world |-> NoWorld] :
      i \in IpArgs, f \in BOOLEAN, e \in Envs,
      t \in {None, Some("news")}, b \in {None, Some("broker.local")},
      u \in {None, Some(""), Some("user")}, w \in {None, Some("secret")} }

\* degrees are counted in units of 1/2000 degree; the inputs are whole
\* thousandths, so that the midpoint of two of them is exact
Milli(m) == 2 * m

\* what the geocoder holds for the query: a body that is not JSON, an empty
\* list, or a first result with an optional name, bounding box and point
GeoMalformed == [kind |-> "malformed", name |-> None, bbox |-> None, point |-> None]
GeoEmpty == [kind |-> "empty", name |-> None, bbox |-> None, point |-> None]
GeoResult(name, bbox, point) ==
    [kind |-> "result", name |-> name, bbox |-> bbox, point |-> point]

\* [south, north, west, east] of a box with the given spans, in thousandths
BBox(south, latSpan, west, lonSpan) ==
    Some(<<Milli(south), Milli(south + latSpan), Milli(west), Milli(west + lonSpan)>>)

BerlinPoint == Some(<<Milli(52517), Milli(13389)>>)

CoarseGeo ==
    { GeoMalformed, GeoEmpty,
      GeoResult(Some("Berlin, Deutschland"), None, None),
      GeoResult(None, None, BerlinPoint),
      GeoResult(Some("Berlin, Deutschland"), BBox(52338, 337, 13088, 672), BerlinPoint),
      GeoResult(Some("Deutschland"), BBox(47270, 7829, 5866, 9175), None) }

\* the spans around every threshold of the zoom table, in thousandths
SpanGrid ==
    { -1000, 0, 9, 10, 11, 99, 100, 101, 999, 1000, 1001,
      4999, 5000, 5001, 9999, 10000, 10001 }
GridGeo ==
    { GeoResult(Some("Place"), BBox(-3000, a, 1000, b), None) :
      a \in SpanGrid, b \in SpanGrid }

MapEnvs == [PAPER_IP : IpEnvs, STADIA_API_KEY : {None, Some("envkey")}]
Lats == {None, Some(Milli(52500))}
Lons == {None, Some(Milli(13400))}
Zooms == {None, Some(0), Some(10)}
Locations == {None, Some(""), Some("Berlin")}

MapScen(Geos) ==
    { [args |-> [NoArgs EXCEPT !.command = "map", !.ip = i, !.force_raw = f,
                               !.api_key = k, !.lat = la, !.lon = lo,
                               !.zoom = z, !.location = n],
       env |-> e,
       world |-> [NoWorld EXCEPT !.has_pillow = l, !.geo = g]] :
      i \in IpArgs, f \in BOOLEAN, k \in {None, Some("argkey")},
      la \in Lats, lo \in Lons, z \in Zooms, n \in Locations,
      e \in MapEnvs, l \in BOOLEAN, g \in {Some(x) : x \in Geos} \cup {None} }

\* the geocoder's data matters only when a location is looked up
MapScenarios(Geos) ==
    { s \in MapScen(Geos) : (s.world.geo # None) <=> Truthy(s.args.location) }

Scenarios == TextScen \cup ImageScen \cup StreamScen \cup MqttScen
                \cup MapScenarios(CoarseGeo)

----------------------------------------------------------------------------
(* State *)

NoLocals ==
    [ip |-> None, content |-> None, img_data |-> None, has_pillow |-> None,
     api_key |-> None, lat |-> None, lon |-> None, zoom |-> None,
     location_name |-> None, width |-> None, height |-> None,
     sock |-> "unbound", line |-> None, unread |-> <<>>, sent |-> <<>>]

Start(s) ==
    /\ args = s.args
    /\ env = s.env
    /\ world = s.world
    /\ pc = "parse"
    /\ loc = [NoLocals EXCEPT !.unread =
                 IF s.args.command = "stream" THEN s.world.stdin ELSE <<>>]
    /\ net = <<>>
    /\ out = <<>>
    /\ exitCode = None
    /\ uncaught = None

Init == \E s \in Scenarios : Start(s)

\* the runs of the zoom table: one address, one key, a location looked up
\* against every box of the grid; every other command with one address
OneAddress(s) ==
    s.args.ip = Some("10.0.0.1") /\ s.env.PAPER_IP = None /\ ~s.args.force_raw
ZoomScenarios ==
    { s \in TextScen \cup ImageScen \cup StreamScen \cup MqttScen : OneAddress(s) }
    \cup
    { [args |-> [NoArgs EXCEPT !.command = "map", !.ip = Some("10.0.0.1"),
                               !.api_key = Some("argkey"), !.zoom = z,
                               !.location = Some("Berlin")],
       env |-> [PAPER_IP |-> None, STADIA_API_KEY |-> None],
       world |-> [NoWorld EXCEPT !.geo = Some(g)]] :
      z \in Zooms, g \in GridGeo }

InitZoom == \E s \in ZoomScenarios : Start(s)

\* one network call: where it went, what was asked, how it came back
Call(dest, host, method, path, body, outcome) ==
    [dest |-> dest, host |-> host, method |-> method, path |-> path,
     body |-> body, outcome |-> outcome]

\* sys.exit(code), or the end of main() with code 0
Exit(code) ==
    /\ pc' = "done"
    /\ exitCode' = Some(code)
    /\ uncaught' = None

\* an exception no handler catches: traceback, status 1
Crash(exception) ==
    /\ pc' = "done"
    /\ exitCode' = Some(1)
    /\ uncaught' = Some(exception)

Goto(label) ==
    /\ pc' = label
    /\ UNCHANGED <<exitCode, uncaught>>

Say(msgs) == out' = out \o msgs

\* one HTTP request to the device
DeviceCall(ip, method, path, body, outcome) ==
    Call("device", BaseUrl(ip).host, method, path, body, outcome)

----------------------------------------------------------------------------
(* main(): the command line and the device address *)

\* "--force-raw" in sys.argv: the token is on the command line as an option,
\* or after "--" as the image path
ForceRawInArgv ==
    \/ args.force_raw
    \/ args.command = "image" /\ args.payload = Some("--force-raw")

\* parser.parse_args() rejects the command line: no subparser declares
\* --force-raw, and mqtt requires --topic and --broker
UsageError ==
    \/ args.force_raw
    \/ args.command = "mqtt" /\ (args.topic = None \/ args.broker = None)

ParseArgs ==
    /\ pc = "parse"
    /\ IF UsageError
       THEN Say(<<"usage error">>) /\ Exit(2)
       ELSE Goto("resolve_ip") /\ UNCHANGED out
    /\ UNCHANGED <<args, env, world, loc, net>>

\* the fallback taken first: the environment wins over --ip
ResolvedIpEnvFirst == PyOr(env.PAPER_IP, args.ip)

\* ip = args.ip or os.environ.get("PAPER_IP")
ResolvedIp == PyOr(args.ip, env.PAPER_IP)

ResolveIP ==
    /\ pc = "resolve_ip"
    /\ IF ~Truthy(ResolvedIp)
       THEN /\ Say(<<"Error: Device IP must be provided">>)
            /\ Exit(1)
            /\ UNCHANGED loc
       ELSE /\ loc' = [loc EXCEPT !.ip = ResolvedIp]
            /\ Goto(args.command)
            /\ UNCHANGED out
    /\ UNCHANGED <<args, env, world, net>>

----------------------------------------------------------------------------
(* text *)

TextInput ==
    /\ pc = "text"
    /\ IF TruthySeq(args.payload)
       THEN /\ loc' = [loc EXCEPT !.content = args.payload]
            /\ Goto("text_post")
            /\ UNCHANGED out
       ELSE IF ~world.isatty
       THEN LET text == Utf8Decode(world.stdin)
            IN  IF text = None
                \* read() raises outside any try block
                THEN /\ Crash("UnicodeDecodeError")
                     /\ UNCHANGED <<loc, out>>
                ELSE /\ loc' = [loc EXCEPT !.content =
                                   Some(Strip(UniversalNewlines(text[1])))]
                     /\ Goto("text_post")
                     /\ UNCHANGED out
       ELSE /\ Say(<<"Error: Provide text as argument or via stdin.">>)
            /\ Exit(1)
            /\ UNCHANGED loc
    /\ UNCHANGED <<args, env, world, net>>

\* the handler ends the run with status 1 after printing the error
TextDeliveredOrExit(o) ==
    /\ Say(<<"Sending text", IF Failed(o) THEN "Error" ELSE "Success!">>)
    /\ Exit(IF Failed(o) THEN 1 ELSE 0)

\* the try block of the text branch: "Success!", or except Exception prints
\* the error; main() then returns
TextDelivered(o) ==
    /\ Say(<<"Sending text", IF Failed(o) THEN "Error" ELSE "Success!">>)
    /\ Exit(0)

TextPost ==
    /\ pc = "text_post"
    /\ \E o \in HttpOutcomes :
        /\ net' = Append(net, DeviceCall(loc.ip[1], "POST", "/api/text",
                     [text |-> loc.content[1], size |-> args.size, clear |-> TRUE], o))
        /\ TextDelivered(o)
    /\ UNCHANGED <<args, env, world, loc>>

----------------------------------------------------------------------------
(* image *)

\* img_data is None: an empty byte string passes
NoDataNoneOnly(d) == d = None

\* not img_data
NoData(d) == d = None \/ d[1].kind = "empty"

\* Image.open(...) succeeds on the bytes
Decodes(bytes) == bytes.kind \in {"jpeg", "png"}

ImageInput ==
    /\ pc = "image"
    /\ IF Truthy(args.payload)
       THEN IF IsFile(args.payload[1])
            THEN IF OpenFails(args.payload[1])
                 THEN /\ Say(<<"Error reading file">>)
                      /\ Exit(1)
                      /\ UNCHANGED loc
                 ELSE /\ loc' = [loc EXCEPT !.img_data = Some(FileBytes(args.payload[1]))]
                      /\ Goto("image_import")
                      /\ UNCHANGED out
            ELSE /\ Say(<<"Error: File not found">>)
                 /\ Exit(1)
                 /\ UNCHANGED loc
       ELSE IF ~world.isatty
       THEN /\ loc' = [loc EXCEPT !.img_data = Some(world.stdin)]
            /\ Say(<<"Reading image from stdin...">>)
            /\ Goto("image_import")
       ELSE /\ Say(<<"Error: Provide an image file or pipe data.">>)
            /\ Exit(1)
            /\ UNCHANGED loc
    /\ UNCHANGED <<args, env, world, net>>

\* the import of Pillow, the --force-raw check and the empty-input check
ImageImport ==
    /\ pc = "image_import"
    /\ IF ~world.has_pillow /\ ~ForceRawInArgv
       THEN /\ Say(<<"ERROR: Pillow library not found!">>)
            /\ Exit(1)
            /\ UNCHANGED loc
       ELSE IF NoData(loc.img_data)
       THEN /\ Say(IF world.has_pillow THEN <<"Error: Empty input.">>
                   ELSE <<"ERROR: Pillow library not found!",
                          "Proceeding with raw upload (--force-raw detected)...",
                          "Error: Empty input.">>)
            /\ Exit(1)
            /\ UNCHANGED loc
       ELSE /\ Say(IF world.has_pillow THEN <<>>
                   ELSE <<"ERROR: Pillow library not found!",
                          "Proceeding with raw upload (--force-raw detected)...">>)
            /\ loc' = [loc EXCEPT !.has_pillow = Some(world.has_pillow)]
            /\ Goto(IF world.has_pillow THEN "image_process" ELSE "image_post")
    /\ UNCHANGED <<args, env, world, net>>

\* Python's round() of num/den, num >= 0 and den > 0: to nearest, ties to even
Round(num, den) ==
    LET q == num \div den
        r == num % den
    IN  IF 2 * r < den THEN q
        ELSE IF 2 * r > den THEN q + 1
        ELSE IF q % 2 = 0 THEN q ELSE q + 1

\* ImageOps.contain(img, (tw, th)): the size it resizes to
Contain(w, h, tw, th) ==
    IF w * th = h * tw THEN <<tw, th>>
    ELSE IF w * th > h * tw THEN <<tw, Round(h * tw, w)>>
    ELSE <<Round(w * th, h), th>>

ImageProcess ==
    /\ pc = "image_process"
    /\ IF Decodes(loc.img_data[1])
       THEN LET size == Contain(loc.img_data[1].w, loc.img_data[1].h, 960, 960)
            IN  /\ loc' = [loc EXCEPT !.img_data = Some(Picture("jpeg", size[1], size[2]))]
                /\ Say(<<"Processing", "Formatted size">>)
       ELSE /\ Say(<<"Warning: Image processing failed. Sending raw data.">>)
            /\ UNCHANGED loc
    /\ Goto("image_post")
    /\ UNCHANGED <<args, env, world, net>>

ImagePost ==
    /\ pc = "image_post"
    /\ \E o \in HttpOutcomes :
        /\ net' = Append(net, DeviceCall(loc.ip[1], "POST", "/api/image", loc.img_data[1], o))
        /\ Say(<<"Sending bytes", IF Failed(o) THEN "Error" ELSE "Success!">>)
    /\ Exit(0)
    /\ UNCHANGED <<args, env, world, loc>>

----------------------------------------------------------------------------
(* stream *)

\* str.encode('latin-1'): one byte per code point
Utf8CharLatin1(cp) == <<cp>>

\* str.encode('utf-8') of code points below 2048
Utf8Char(cp) ==
    IF cp < 128 THEN <<cp>> ELSE <<192 + (cp \div 64), 128 + (cp % 64)>>

RECURSIVE Utf8(_)
Utf8(line) ==
    IF line = <<>> THEN <<>> ELSE Utf8Char(Head(line)) \o Utf8(Tail(line))

\* a step of the try block ends normally, raises an Exception, or is cut by
\* the operator's Ctrl+C
StepResults == {"ok", "fault", "interrupt"}

\* except KeyboardInterrupt / except Exception, then on to the finally clause
StreamHandler(r) ==
    /\ Say(IF r = "interrupt" THEN <<"Disconnected.">> ELSE <<"Error">>)
    /\ Goto("stream_finally")

\* s = socket.socket(...)
StreamSocket ==
    /\ pc = "stream"
    /\ \E r \in StepResults :
        IF r = "ok"
        THEN /\ loc' = [loc EXCEPT !.sock = "created"]
             /\ Say(<<"Connecting to Stream">>)
             /\ Goto("stream_connect")
        ELSE /\ Say(<<"Connecting to Stream",
                      IF r = "interrupt" THEN "Disconnected." ELSE "Error">>)
             /\ Goto("stream_finally")
             /\ UNCHANGED loc
    /\ UNCHANGED <<args, env, world, net>>

\* s.connect((ip, 2323))
StreamConnect ==
    /\ pc = "stream_connect"
    /\ \E r \in StepResults :
        /\ net' = Append(net, Call("device", loc.ip[1], "CONNECT", "2323", None,
                     [kind |-> IF r = "ok" THEN "connected"
                               ELSE IF r = "fault" THEN "error" ELSE "interrupted",
                      status |-> 0]))
        /\ IF r = "ok"
           THEN /\ loc' = [loc EXCEPT !.sock = "connected"]
                /\ Say(<<"Connected!">>)
                /\ Goto("stream_read")
           ELSE /\ StreamHandler(r)
                /\ UNCHANGED loc
    /\ UNCHANGED <<args, env, world>>

\* line = sys.stdin.readline(); if not line: break
StreamRead ==
    /\ pc = "stream_read"
    /\ \E r \in StepResults :
        IF r = "ok"
        THEN /\ UNCHANGED out
             /\ IF loc.unread = <<>>
                THEN /\ Goto("stream_finally")
                     /\ UNCHANGED loc
                ELSE /\ loc' = [loc EXCEPT !.line = Some(Head(loc.unread)),
                                           !.unread = Tail(loc.unread)]
                     /\ Goto("stream_send")
        ELSE /\ StreamHandler(r)
             /\ UNCHANGED loc
    /\ UNCHANGED <<args, env, world, net>>

\* s.sendall(line.encode('utf-8')): all of the bytes, or on a fault or an
\* interrupt an unknown part of them
StreamSend ==
    /\ pc = "stream_send"
    /\ LET bytes == Utf8(loc.line[1])
       IN  \E r \in StepResults :
            /\ net' = Append(net, Call("device", loc.ip[1], "SEND", "2323", bytes,
                         [kind |-> IF r = "ok" THEN "sent"
                                   ELSE IF r = "fault" THEN "error" ELSE "interrupted",
                          status |-> 0]))
            /\ IF r = "ok"
               THEN /\ loc' = [loc EXCEPT !.sent = loc.sent \o bytes]
                    /\ Goto("stream_read")
                    /\ UNCHANGED out
               ELSE \E k \in 0..(Len(bytes) - 1) :
                    /\ loc' = [loc EXCEPT !.sent = loc.sent \o SubSeq(bytes, 1, k)]
                    /\ StreamHandler(r)
    /\ UNCHANGED <<args, env, world>>

\* finally: s.close(); s is unbound when socket.socket() did not return
StreamClose ==
    /\ pc = "stream_finally"
    /\ IF loc.sock = "unbound"
       THEN /\ Crash("UnboundLocalError")
            /\ UNCHANGED loc
       ELSE /\ loc' = [loc EXCEPT !.sock = "closed"]
            /\ Exit(0)
    /\ UNCHANGED <<args, env, world, net, out>>

----------------------------------------------------------------------------
(* mqtt *)

\* data: username and password are left out when absent or empty
MqttData ==
    [broker |-> args.broker[1], topic |-> args.topic[1], port |-> args.port,
     username |-> IF Truthy(args.username) THEN args.username ELSE None,
     password |-> IF Truthy(args.password) THEN args.password ELSE None]

\* the body of the device's answer: not JSON, or an object with "connected"
MqttBodies == {"malformed", "connected", "not connected"}

MqttPost ==
    /\ pc = "mqtt"
    /\ \E o \in HttpOutcomes, b \in MqttBodies :
        /\ net' = Append(net, DeviceCall(loc.ip[1], "POST", "/api/mqtt", MqttData, o))
        /\ IF o.kind = "error"
           THEN Say(<<"Connecting device to MQTT broker", "Error">>) /\ Exit(1)
           ELSE IF RaisesForStatus(o.status)
           THEN /\ Say(<<"Connecting device to MQTT broker", "Error">>
                       \o (IF b = "malformed" THEN <<>> ELSE <<"Detail">>))
                /\ Exit(1)
           ELSE IF b = "malformed"
           THEN Say(<<"Connecting device to MQTT broker", "Error">>) /\ Exit(1)
           ELSE IF b = "connected"
           THEN /\ Say(<<"Connecting device to MQTT broker",
                         "Success! Device connected to MQTT broker.">>)
                /\ Exit(0)
           ELSE /\ Say(<<"Connecting device to MQTT broker",
                         "Warning: Connection status unclear.">>)
                /\ Exit(0)
    /\ UNCHANGED <<args, env, world, loc>>

----------------------------------------------------------------------------
(* map *)

\* api_key = args.api_key or os.environ.get("STADIA_API_KEY")
ResolvedKey == PyOr(args.api_key, env.STADIA_API_KEY)

MapApiKey ==
    /\ pc = "map"
    /\ IF ~Truthy(ResolvedKey)
       THEN /\ Say(<<"Error: Stadia Maps API key required.">>)
            /\ Exit(1)
            /\ UNCHANGED loc
       ELSE /\ loc' = [loc EXCEPT !.api_key = ResolvedKey,
                                  !.lat = args.lat, !.lon = args.lon,
                                  !.zoom = args.zoom]
            /\ Goto("map_resolve")
            /\ UNCHANGED out
    /\ UNCHANGED <<args, env, world, net>>

(* Python floats: IEEE 754 doubles, rounded to nearest, ties to even *)

\* a natural number is a sequence of binary digits, most significant first,
\* without leading zeros; a double is sign, mantissa and binary exponent:
\* the value is m * 2^e, negated when neg
Precision == 53

Zeros(k) == [i \in 1..k |-> 0]

Front(s) == SubSeq(s, 1, Len(s) - 1)

\* b with zeros in front, to n digits
Pad(b, n) == Zeros(n - Len(b)) \o b

StripZeros(b) ==
    LET ones == {i \in 1..Len(b) : b[i] = 1}
    IN  IF ones = {} THEN <<>>
        ELSE SubSeq(b, CHOOSE i \in ones : \A j \in ones : i <= j, Len(b))

\* the last w binary digits of n
LowBits(n, w) == [i \in 1..w |-> (n \div 2^(w - i)) % 2]

\* the digits of a natural number below 2^30
Bits(n) == StripZeros(LowBits(n, 30))

\* a + b: a place receives a carry when a lower place makes one and every
\* place between passes it on
AddBits(a, b) ==
    LET n == IF Len(a) > Len(b) THEN Len(a) ELSE Len(b)
        x == Pad(a, n)
        y == Pad(b, n)
        carry(i) == \E j \in (i + 1)..n :
                        /\ x[j] + y[j] = 2
                        /\ \A k \in (i + 1)..(j - 1) : x[k] + y[k] = 1
        c(i) == IF carry(i) THEN 1 ELSE 0
    IN  (IF carry(0) THEN <<1>> ELSE <<>>)
            \o [i \in 1..n |-> (x[i] + y[i] + c(i)) % 2]

\* a - b for a >= b, with borrows in place of carries
SubBits(a, b) ==
    LET n == Len(a)
        y == Pad(b, n)
        borrow(i) == \E j \in (i + 1)..n :
                         /\ a[j] < y[j]
                         /\ \A k \in (i + 1)..(j - 1) : a[k] = y[k]
        c(i) == IF borrow(i) THEN 1 ELSE 0
    IN  StripZeros([i \in 1..n |-> (a[i] + y[i] + c(i)) % 2])

\* -1, 0 or 1 as a is below, equal to or above b
CmpBits(a, b) ==
    IF Len(a) # Len(b) THEN (IF Len(a) > Len(b) THEN 1 ELSE -1)
    ELSE LET differ == {i \in 1..Len(a) : a[i] # b[i]}
         IN  IF differ = {} THEN 0
             ELSE LET i == CHOOSE i \in differ : \A j \in differ : i <= j
                  IN  IF a[i] > b[i] THEN 1 ELSE -1

\* k * 2^64 divided by 1000, 16 binary places at a time, with the remainder
DivThousand(k) ==
    LET t1 == (k % 1000) * 2^16
        t2 == (t1 % 1000) * 2^16
        t3 == (t2 % 1000) * 2^16
        t4 == (t3 % 1000) * 2^16
    IN  [q |-> StripZeros(LowBits(k \div 1000, 30)
                            \o LowBits(t1 \div 1000, 16)
                            \o LowBits(t2 \div 1000, 16)
                            \o LowBits(t3 \div 1000, 16)
                            \o LowBits(t4 \div 1000, 16)),
         r |-> t4 % 1000]

\* m * 2^e, plus a fraction of its last place when sticky, as a double
RoundBits(neg, m, e, sticky) ==
    LET n == Len(m)
    IN  IF n <= Precision THEN [neg |-> neg, m |-> m, e |-> e]
        ELSE LET keep == SubSeq(m, 1, Precision)
                 half == m[Precision + 1] = 1
                 more == sticky \/ \E i \in (Precision + 2)..n : m[i] = 1
                 up   == half /\ (more \/ keep[Precision] = 1)
                 r    == IF up THEN AddBits(keep, <<1>>) ELSE keep
             IN  IF Len(r) > Precision
                 THEN [neg |-> neg, m |-> Front(r), e |-> e + n - Precision + 1]
                 ELSE [neg |-> neg, m |-> r, e |-> e + n - Precision]

FloatZero == [neg |-> FALSE, m |-> <<>>, e |-> 0]

\* the double of a whole number
FloatOfInt(n) ==
    RoundBits(n < 0, Bits(IF n < 0 THEN -n ELSE n), 0, FALSE)

\* float(s) for the decimal text s of k thousandths
FloatOfThousandths(k) ==
    IF k = 0 THEN FloatZero
    ELSE LET d == DivThousand(IF k < 0 THEN -k ELSE k)
         IN  RoundBits(k < 0, d.q, -64, d.r # 0)

\* the mantissas of x and y over their common exponent
Aligned(x, y) ==
    LET e == IF x.e < y.e THEN x.e ELSE y.e
    IN  [x |-> x.m \o Zeros(x.e - e), y |-> y.m \o Zeros(y.e - e), e |-> e]

\* x + y
FloatAdd(x, y) ==
    IF x.m = <<>> THEN y
    ELSE IF y.m = <<>> THEN x
    ELSE LET a == Aligned(x, y)
             c == CmpBits(a.x, a.y)
         IN  IF x.neg = y.neg
             THEN RoundBits(x.neg, AddBits(a.x, a.y), a.e, FALSE)
             ELSE IF c = 0 THEN FloatZero
             ELSE IF c > 0
             THEN RoundBits(x.neg, SubBits(a.x, a.y), a.e, FALSE)
             ELSE RoundBits(y.neg, SubBits(a.y, a.x), a.e, FALSE)

\* x - y
FloatSub(x, y) == FloatAdd(x, [y EXCEPT !.neg = ~y.neg])

FloatSign(x) == IF x.m = <<>> THEN 0 ELSE IF x.neg THEN -1 ELSE 1

\* x > y
FloatGt(x, y) ==
    IF FloatSign(x) # FloatSign(y) THEN FloatSign(x) > FloatSign(y)
    ELSE IF FloatSign(x) = 0 THEN FALSE
    ELSE LET a == Aligned(x, y)
             c == CmpBits(a.x, a.y)
         IN  IF x.neg THEN c < 0 ELSE c > 0

\* max(a, b): the first argument unless the second is greater
FloatMax(a, b) == IF FloatGt(b, a) THEN b ELSE a

\* float(s) of a coordinate text, held in the model in units of 1/2000 degree
FloatOf(v) == FloatOfThousandths(v \div 2)

\* the zoom table: max_diff against 10, 5, 1, 0.1 and 0.01
ZoomForSpan(max_diff) ==
    IF FloatGt(max_diff, FloatOfInt(10)) THEN 5
    ELSE IF FloatGt(max_diff, FloatOfInt(5)) THEN 7
    ELSE IF FloatGt(max_diff, FloatOfInt(1)) THEN 10
    ELSE IF FloatGt(max_diff, FloatOfThousandths(100)) THEN 13
    ELSE IF FloatGt(max_diff, FloatOfThousandths(10)) THEN 15
    ELSE 16

\* bbox is [south, north, west, east]
BBoxZoom(bbox) ==
    ZoomForSpan(FloatMax(FloatSub(FloatOf(bbox[2]), FloatOf(bbox[1])),
                         FloatSub(FloatOf(bbox[4]), FloatOf(bbox[3]))))

\* the centre of the box, (south + north) / 2, to the nearest 1/2000 degree:
\* the inputs are whole thousandths, the sum is even
BBoxCenter(bbox) == <<(bbox[1] + bbox[2]) \div 2, (bbox[3] + bbox[4]) \div 2>>

\* the geocoding branch with the default of the lat/lon branch, 15
GeocodedZoomSwapped(zoom, result) ==
    IF zoom # None THEN zoom
    ELSE IF result.bbox # None THEN Some(BBoxZoom(result.bbox[1]))
    ELSE Some(15)

\* zoom after the geocoding branch: a pinned zoom is kept
GeocodedZoom(zoom, result) ==
    IF zoom # None THEN zoom
    ELSE IF result.bbox # None THEN Some(BBoxZoom(result.bbox[1]))
    ELSE Some(14)

\* if not zoom: a pinned zoom of 0 is lost
DefaultZoomFalsy(zoom) == IF zoom = None \/ zoom = Some(0) THEN Some(15) ELSE zoom

\* if zoom is None: zoom = 15
DefaultZoom(zoom) == IF zoom = None THEN Some(15) ELSE zoom

\* the outcomes drawn for the geocoder and for the status query
ServiceOutcomes == {TransportError, Response(200), Response(500)}

GeocodeCall(o) ==
    Call("geocoder", "nominatim.openstreetmap.org", "GET", "/search",
         [q |-> args.location[1], format |-> "json", limit |-> 1], o)

\* the geocoding branch after a response that raise_for_status() accepts
Geocoded ==
    LET g == world.geo[1]
    IN  IF g.kind = "malformed"
        \* resp.json() raises JSONDecodeError: a RequestException in requests
        \* from 2.27 on, a plain ValueError before
        THEN \/ Say(<<"Geocoding", "Error: Geocoding failed">>) /\ Exit(1) /\ UNCHANGED loc
             \/ Say(<<"Geocoding">>) /\ Crash("ValueError") /\ UNCHANGED loc
        ELSE IF g.kind = "empty"
        THEN Say(<<"Geocoding", "Error: Location not found.">>) /\ Exit(1) /\ UNCHANGED loc
        ELSE IF g.bbox = None /\ g.point = None
        THEN Say(<<"Geocoding">>) /\ Crash("KeyError") /\ UNCHANGED loc
        ELSE LET center == IF g.bbox # None THEN BBoxCenter(g.bbox[1]) ELSE g.point[1]
             IN  /\ loc' = [loc EXCEPT
                        !.location_name = IF g.name # None THEN g.name ELSE args.location,
                        !.lat = Some(center[1]),
                        !.lon = Some(center[2]),
                        !.zoom = DefaultZoom(GeocodedZoom(loc.zoom, g))]
                 /\ Say(<<"Geocoding", "Found", "Coordinates">>)
                 /\ Goto("map_status")

\* coordinates and zoom, from --location or from --lat/--lon
MapResolve ==
    /\ pc = "map_resolve"
    /\ IF Truthy(args.location)
       THEN \E o \in ServiceOutcomes :
            /\ net' = Append(net, GeocodeCall(o))
            /\ IF Failed(o)
               THEN /\ Say(<<"Geocoding", "Error: Geocoding failed">>)
                    /\ Exit(1)
                    /\ UNCHANGED loc
               ELSE Geocoded
       ELSE /\ UNCHANGED net
            /\ IF loc.lat = None \/ loc.lon = None
               THEN /\ Say(<<"Error: Either --lat and --lon, or --location must be provided.">>)
                    /\ Exit(1)
                    /\ UNCHANGED loc
               ELSE /\ loc' = [loc EXCEPT !.zoom = DefaultZoom(loc.zoom)]
                    /\ Goto("map_status")
                    /\ UNCHANGED out
    /\ UNCHANGED <<args, env, world>>

\* the body of GET /api/status: not JSON, or an object that may lack the
\* screen dimensions
StatusBodies ==
    { [kind |-> "malformed", screen_width |-> None, screen_height |-> None],
      [kind |-> "json", screen_width |-> None, screen_height |-> None],
      [kind |-> "json", screen_width |-> Some(800), screen_height |-> Some(480)] }

\* dict.get(key, default)
Get(o, default) == IF o = None THEN default ELSE o[1]

MapStatus ==
    /\ pc = "map_status"
    /\ \E o \in ServiceOutcomes, b \in StatusBodies :
        /\ net' = Append(net, DeviceCall(loc.ip[1], "GET", "/api/status", None, o))
        /\ IF Failed(o) \/ b.kind = "malformed"
           THEN /\ loc' = [loc EXCEPT !.width = Some(960), !.height = Some(540)]
                /\ Say(<<"Querying device status...", "Warning: Could not query device">>)
           ELSE /\ loc' = [loc EXCEPT !.width = Some(Get(b.screen_width, 960)),
                                      !.height = Some(Get(b.screen_height, 540))]
                /\ Say(<<"Querying device status...", "Device screen">>)
    /\ Goto("map_fetch")
    /\ UNCHANGED <<args, env, world>>

\* the static-map URL: centre, zoom, logical size at @2x, marker, key
TileCall(o) ==
    Call("tiles", "tiles.stadiamaps.com", "GET", "/static/stamen_toner.png",
         [center |-> <<loc.lat[1], loc.lon[1]>>, zoom |-> loc.zoom[1],
          size |-> <<loc.width[1], loc.height[1]>>, scale |-> 2,
          markers |-> <<loc.lat[1], loc.lon[1]>>, api_key |-> loc.api_key[1]], o)

\* what the tile service can send with a response that is not an error
TileBodies(o) ==
    IF o.status = 200
    THEN { Picture("png", 2 * loc.width[1], 2 * loc.height[1]),
           Picture("png", loc.width[1], loc.height[1]),
           Garbage }
    ELSE { EmptyBytes }

\* what except requests.exceptions.HTTPError / except Exception of the map
\* branch print
MapFailure(o) ==
    IF o.kind = "response" /\ o.status = 401
    THEN "Error: Invalid API key." ELSE "Error"

\* the failure is printed and the upload goes on with what there is
TileFailedGoesOn(o) ==
    /\ Say(<<"Fetching map", "Error">>)
    /\ loc' = [loc EXCEPT !.img_data = Some(Garbage)]
    /\ Goto("map_post")

\* the tile fetch raised: the handlers end the run before the processing
\* and the upload
TileFailed(o) ==
    /\ Say(<<"Fetching map", MapFailure(o)>>)
    /\ Exit(1)
    /\ UNCHANGED loc

MapFetch ==
    /\ pc = "map_fetch"
    /\ \E o \in HttpOutcomes :
        /\ net' = Append(net, TileCall(o))
        /\ IF Failed(o)
           THEN TileFailed(o)
           ELSE \E b \in TileBodies(o) :
                /\ loc' = [loc EXCEPT !.img_data = Some(b)]
                /\ Goto("map_process")
                /\ Say(<<"Fetching map">>)
    /\ UNCHANGED <<args, env, world>>

\* the e-ink processing: only a missing Pillow is handled in place
MapProcess ==
    /\ pc = "map_process"
    /\ IF ~world.has_pillow
       THEN /\ Say(<<"Warning: Pillow not installed. Sending map without enhancement.">>)
            /\ Goto("map_post")
            /\ UNCHANGED loc
       ELSE IF Decodes(loc.img_data[1])
       THEN /\ loc' = [loc EXCEPT !.img_data =
                          Some(Picture("jpeg", loc.width[1], loc.height[1]))]
            /\ Say(IF <<loc.img_data[1].w, loc.img_data[1].h>> # <<loc.width[1], loc.height[1]>>
                   THEN <<"Resizing map">> ELSE <<>>)
            /\ Goto("map_post")
       ELSE /\ Say(<<"Error">>)
            /\ Exit(1)
            /\ UNCHANGED loc
    /\ UNCHANGED <<args, env, world, net>>

MapPost ==
    /\ pc = "map_post"
    /\ \E o \in HttpOutcomes :
        /\ net' = Append(net, DeviceCall(loc.ip[1], "POST", "/api/image", loc.img_data[1], o))
        /\ IF Failed(o)
           THEN /\ Say(<<"Sending map", MapFailure(o)>>)
                /\ Exit(1)
           ELSE /\ Say(<<"Sending map", "Success! Map displayed.">>)
                /\ Exit(0)
    /\ UNCHANGED <<args, env, world, loc>>

----------------------------------------------------------------------------
(* The run *)

Next ==
    \/ ParseArgs
    \/ ResolveIP
    \/ TextInput
    \/ TextPost
    \/ ImageInput
    \/ ImageImport
    \/ ImageProcess
    \/ ImagePost
    \/ StreamSocket
    \/ StreamConnect
    \/ StreamRead
    \/ StreamSend
    \/ StreamClose
    \/ MapApiKey
    \/ MapResolve
    \/ MapStatus
    \/ MapFetch
    \/ MapProcess
    \/ MapPost
    \/ MqttPost

Spec == Init /\ [][Next]_vars

SpecZoom == InitZoom /\ [][Next]_vars

----------------------------------------------------------------------------
(* Properties *)

Calls == {net[i] : i \in 1..Len(net)}
CallsTo(dest) == {c \in Calls : c.dest = dest}
Printed(msg) == \E i \in 1..Len(out) : out[i] = msg
Done == pc = "done"

\* the request came back with a transport error or an HTTP error status
ErrorOutcome(c) ==
    c.outcome.kind = "error"
        \/ (c.outcome.kind = "response" /\ c.outcome.status \in 400..599)

\* C1: in every command every call to the device goes to --ip when that is
\* non-empty and to PAPER_IP otherwise; when both are absent or empty the run
\* ends after address resolution with a non-zero status and without any
\* network call.
C1_DeviceAddress ==
    LET expected == IF args.ip # None /\ args.ip # Some("") THEN args.ip
                    ELSE env.PAPER_IP
        missing == expected = None \/ expected = Some("")
    IN  /\ \A c \in CallsTo("device") : Some(c.host) = expected
        /\ missing => /\ net = <<>>
                      /\ pc \in {"parse", "resolve_ip", "done"}
                      /\ Done => exitCode # Some(0)

\* an empty --ip falls back to PAPER_IP and the device is called there
C1_Witness ==
    /\ args.ip = Some("")
    /\ env.PAPER_IP = Some("10.0.0.2")
    /\ \E c \in CallsTo("device") : c.host = "10.0.0.2"

\* the tile fetch of the map command came back as a failure
TileFetchFailed(c) ==
    c.dest = "tiles"
        /\ (c.outcome.kind = "error" \/ c.outcome.status \notin 200..299)

\* C2 as stated: in a run whose tile fetch failed (a transport error or any
\* status outside 2xx) no request at all is sent to the device.
C2_NoDeviceCallOnTileFailure ==
    (\E c \in Calls : TileFetchFailed(c)) => CallsTo("device") = {}

\* C2, amended: when the tile fetch fails with a transport error or an HTTP
\* error status (4xx, 5xx), the run ends there with status 1: the fetch is the
\* last call of the run, nothing is POSTed to /api/image, and the only request
\* the device has received is the GET /api/status made before the fetch.
C2_NoUploadAfterTileFailure ==
    \A i \in 1..Len(net) :
        (net[i].dest = "tiles" /\ ErrorOutcome(net[i])) =>
            /\ Done /\ exitCode = Some(1)
            /\ i = Len(net)
            /\ \A j \in 1..Len(net) :
                   net[j].dest = "device" =>
                       /\ j < i
                       /\ net[j].method = "GET"
                       /\ net[j].path = "/api/status"

\* the tile service answered 500 after the device had answered the status query
C2_Witness ==
    /\ Done
    /\ Len(net) >= 2
    /\ net[Len(net)].dest = "tiles"
    /\ net[Len(net)].outcome = Response(500)
    /\ net[Len(net) - 1].dest = "device"
    /\ net[Len(net) - 1].outcome = Response(200)
    /\ exitCode = Some(1)

\* C3 as stated: a stream run, however it ends (end of input, interrupt, or a
\* fault at socket creation, connect, read or send), closes the socket it
\* created and ends without an unhandled fault.
C3_SocketAlwaysClosed ==
    (args.command = "stream" /\ Done /\ Printed("Connecting to Stream")) =>
        /\ uncaught = None
        /\ loc.sock \in {"unbound", "closed"}

\* the upload of the last call carries exactly these bytes
UploadedRaw(bytes) ==
    /\ net # <<>>
    /\ net[Len(net)].dest = "device"
    /\ net[Len(net)].method = "POST"
    /\ net[Len(net)].path = "/api/image"
    /\ net[Len(net)].body = bytes

\* C4 as stated: with Pillow available, bytes that fail to decode are still
\* POSTed raw to /api/image with a warning, in the image command and in the
\* map command alike; the run is never aborted by the processing failure.
C4_ProcessingFailureDegrades ==
    ( /\ Done
      /\ args.command \in {"image", "map"}
      /\ world.has_pillow
      /\ loc.img_data # None
      /\ loc.img_data[1].kind = "garbage" ) =>
        UploadedRaw(loc.img_data[1])

\* the image command's input resolves to bytes that are not empty
ImageInputPresent ==
    IF args.payload # None /\ args.payload # Some("")
    THEN /\ IsFile(args.payload[1])
         /\ ~OpenFails(args.payload[1])
         /\ FileBytes(args.payload[1]) # EmptyBytes
    ELSE ~world.isatty /\ world.stdin # EmptyBytes

\* C5 as stated: without Pillow, image bytes reach /api/image only when
\* --force-raw is on the command line: without it the run fails with a
\* non-zero status and no upload (image and map); with it, an image command
\* that has an address and input bytes goes on to the raw upload.
C5_RawOnlyWithOverride ==
    ( /\ Done
      /\ args.command \in {"image", "map"}
      /\ ~world.has_pillow ) =>
        /\ ~ForceRawInArgv =>
               /\ exitCode # Some(0)
               /\ \A c \in CallsTo("device") : c.path # "/api/image"
        /\ ( /\ ForceRawInArgv
             /\ args.command = "image"
             /\ Truthy(PyOr(args.ip, env.PAPER_IP))
             /\ ImageInputPresent ) =>
               \E c \in CallsTo("device") : c.path = "/api/image"

\* C6 as stated: every run of every command ends through a handled path, with
\* a message printed, and never through an uncaught exception.
C6_AllFailuresCaught ==
    Done => uncaught = None /\ out # <<>>

\* the device rejected or did not answer a POST, a connect or a send
DeliveryFailed ==
    \E c \in CallsTo("device") :
        c.method \in {"POST", "CONNECT", "SEND"} /\ ErrorOutcome(c)

\* the run ended on a missing address, key, coordinate or input, or on a
\* command line that argparse rejects
PreconditionFailed ==
    \/ Printed("usage error")
    \/ Printed("Error: Device IP must be provided")
    \/ Printed("Error: Provide text as argument or via stdin.")
    \/ Printed("Error reading file")
    \/ Printed("Error: File not found")
    \/ Printed("Error: Provide an image file or pipe data.")
    \/ Printed("Error: Empty input.")
    \/ Printed("Error: Stadia Maps API key required.")
    \/ Printed("Error: Either --lat and --lon, or --location must be provided.")

\* C7 as stated: in every command a delivery failure ends the run with
\* status 0, and a non-zero status comes only from a precondition failure.
C7_ExitStatusPolicy ==
    Done =>
        /\ DeliveryFailed => exitCode = Some(0)
        /\ exitCode # Some(0) => PreconditionFailed

\* C7, amended: a delivery failure is printed and the run ends with status 0
\* in text, image and stream, and with status 1 in map and mqtt; once any
\* network call has been made, a non-zero status occurs only in map and mqtt;
\* before any call it comes from a precondition failure, from a missing Pillow
\* without override, from the stream command's unbound socket, or from piped
\* text that is not UTF-8.
C7_ExitStatusByCommand ==
    Done =>
        /\ DeliveryFailed =>
               /\ Printed("Error") \/ Printed("Error: Invalid API key.")
               /\ args.command \in {"text", "image", "stream"} => exitCode = Some(0)
               /\ args.command \in {"map", "mqtt"} => exitCode = Some(1)
        /\ (exitCode # Some(0) /\ net # <<>>) => args.command \in {"map", "mqtt"}
        /\ (exitCode # Some(0) /\ net = <<>>) =>
               \/ PreconditionFailed
               \/ Printed("ERROR: Pillow library not found!")
               \/ args.command = "stream" /\ uncaught = Some("UnboundLocalError")
               \/ args.command = "text" /\ uncaught = Some("UnicodeDecodeError")

\* the device answered the text POST with 500 and the run ended with status 0
C7_Witness ==
    /\ Done
    /\ args.command = "text"
    /\ net # <<>>
    /\ net[Len(net)].outcome = Response(500)
    /\ Printed("Error")
    /\ exitCode = Some(0)

\* the zoom table of the claim, on a span in thousandths of a degree
C8_Table(span) ==
    CASE span > 10000 -> 5
      [] span > 5000 /\ span <= 10000 -> 7
      [] span > 1000 /\ span <= 5000 -> 10
      [] span > 100 /\ span <= 1000 -> 13
      [] span > 10 /\ span <= 100 -> 15
      [] span <= 10 -> 16

\* C8 as stated: after a location is geocoded with a bounding box and no
\* pinned zoom, the zoom is the table's value for max(north - south,
\* east - west), every threshold exclusive (a span of exactly 10, 5, 1, 0.1
\* or 0.01 maps to 7, 10, 13, 15 or 16), spans of zero or below included; the
\* tile is requested at that zoom.
C8_ZoomTable ==
    ( /\ args.command = "map"
      /\ args.zoom = None
      /\ loc.location_name # None
      /\ world.geo[1].bbox # None ) =>
        LET b == world.geo[1].bbox[1]
            latSpan == (b[2] - b[1]) \div 2
            lonSpan == (b[4] - b[3]) \div 2
            maxSpan == IF latSpan >= lonSpan THEN latSpan ELSE lonSpan
        IN  /\ loc.zoom = Some(C8_Table(maxSpan))
            /\ \A c \in CallsTo("tiles") : c.body.zoom = C8_Table(maxSpan)

\* C9 as stated: whenever --lat, --lon and --zoom are all given, the geocoder
\* is never called and every tile request is for exactly those values.
C9_ExplicitNeverGeocodes ==
    ( /\ args.command = "map"
      /\ args.lat # None /\ args.lon # None /\ args.zoom # None ) =>
        /\ CallsTo("geocoder") = {}
        /\ \A c \in CallsTo("tiles") :
               /\ c.body.center = <<args.lat[1], args.lon[1]>>
               /\ c.body.zoom = args.zoom[1]

\* C9, amended: whenever --lat, --lon and --zoom are all given and no
\* non-empty --location is given, the geocoder is never called and every tile
\* request is for exactly those values; the two sources are not exclusive: a
\* non-empty --location given with them is geocoded first, before any tile
\* request, and the pinned zoom is kept.
C9_ExplicitWithoutLocation ==
    ( /\ args.command = "map"
      /\ args.lat # None /\ args.lon # None /\ args.zoom # None ) =>
        IF args.location = None \/ args.location = Some("")
        THEN /\ CallsTo("geocoder") = {}
             /\ \A c \in CallsTo("tiles") :
                    /\ c.body.center = <<args.lat[1], args.lon[1]>>
                    /\ c.body.zoom = args.zoom[1]
        ELSE \A i \in 1..Len(net) :
                 net[i].dest = "tiles" =>
                     LET g == world.geo[1]
                         found == IF g.bbox = None THEN g.point[1]
                                  ELSE <<(g.bbox[1][1] + g.bbox[1][2]) \div 2,
                                         (g.bbox[1][3] + g.bbox[1][4]) \div 2>>
                     IN  /\ net[i].body.zoom = args.zoom[1]
                         /\ net[i].body.center = found
                         /\ \E j \in 1..(i - 1) : net[j].dest = "geocoder"

\* the tile was requested at 52.5, 13.4, zoom 0 without any geocoder call
C9_Witness ==
    /\ args.command = "map"
    /\ args.location = None
    /\ args.lat = Some(Milli(52500)) /\ args.lon = Some(Milli(13400))
    /\ args.zoom = Some(0)
    /\ CallsTo("geocoder") = {}
    /\ \E c \in CallsTo("tiles") :
           c.body.center = <<Milli(52500), Milli(13400)>> /\ c.body.zoom = 0

\* the bytes the image command's input resolution yields: those of the path
\* when one is given, else those piped in
C10_Source ==
    IF args.payload # None /\ args.payload # Some("")
    THEN IF IsFile(args.payload[1]) /\ ~OpenFails(args.payload[1])
         THEN Some(FileBytes(args.payload[1])) ELSE None
    ELSE IF ~world.isatty THEN Some(world.stdin) ELSE None

\* C10: in an image command that argparse accepts, the bytes come from the
\* path when one is given, else from a non-interactive stdin; when neither
\* yields data (no path and a terminal, a path that is no readable file, an
\* empty file or an empty pipe) the run ends with status 1 and no network call.
C10_ImageInput ==
    (args.command = "image" /\ ~args.force_raw) =>
        /\ pc \in {"image_import", "image_process"} => loc.img_data = C10_Source
        /\ \A c \in Calls :
               (~world.has_pillow \/ c.body.kind = "garbage") => Some(c.body) = C10_Source
        /\ (Done /\ (C10_Source = None \/ C10_Source = Some(EmptyBytes))) =>
               exitCode = Some(1) /\ net = <<>>

\* nothing was piped into an image command without a path: "Empty input"
C10_Witness ==
    /\ Done
    /\ args.command = "image"
    /\ args.payload = None
    /\ ~world.isatty /\ world.stdin = EmptyBytes
    /\ loc.ip # None
    /\ Printed("Error: Empty input.")
    /\ exitCode = Some(1) /\ net = <<>>


\* the UTF-8 bytes of the characters that occur in the lines of the model
C11_CharBytes(cp) ==
    CASE cp = 97 -> <<97>>
      [] cp = 10 -> <<10>>
      [] cp = 233 -> <<195, 169>>

RECURSIVE C11_LineBytes(_)
C11_LineBytes(line) ==
    IF line = <<>> THEN <<>>
    ELSE C11_CharBytes(Head(line)) \o C11_LineBytes(Tail(line))

\* the bytes of the first n lines of standard input, one after the other
RECURSIVE C11_Forwarded(_)
C11_Forwarded(n) ==
    IF n = 0 THEN <<>>
    ELSE C11_Forwarded(n - 1) \o C11_LineBytes(world.stdin[n])

\* how many lines readline() has returned so far
C11_LinesRead == Len(world.stdin) - Len(loc.unread)

\* the run is a stream run whose connect succeeded
C11_Connected == args.command = "stream" /\ loc.sock \in {"connected", "closed"}

\* the last sendall() raised or was interrupted
C11_SendCut ==
    /\ net # <<>>
    /\ net[Len(net)].method = "SEND"
    /\ net[Len(net)].outcome.kind \in {"error", "interrupted"}

\* C11 as stated: after the connect, whenever the program is not in the middle
\* of forwarding a line, the bytes written to the socket are exactly the lines
\* read so far, in order and verbatim, none dropped.
C11_SentIsAllRead ==
    (C11_Connected /\ pc # "stream_send") =>
        loc.sent = C11_Forwarded(C11_LinesRead)

\* C11, amended: after the connect the bytes written are the lines read so
\* far, in order, verbatim and without duplication, except for the last line
\* read while its send is pending (nothing of it written yet) or after its
\* send faulted or was interrupted (only a proper prefix of it written, the run
\* then ends); absent a fault or interrupt, the run ends at end-of-input with
\* every line of standard input sent.
C11_SentIsPrefixOfRead ==
    C11_Connected =>
        LET n == C11_LinesRead
        IN  /\ pc = "stream_read" => loc.sent = C11_Forwarded(n)
            /\ pc = "stream_send" => n >= 1 /\ loc.sent = C11_Forwarded(n - 1)
            /\ pc \in {"stream_finally", "done"} =>
                   IF C11_SendCut
                   THEN \E k \in 0..(Len(C11_LineBytes(world.stdin[n])) - 1) :
                            loc.sent = C11_Forwarded(n - 1)
                                \o SubSeq(C11_LineBytes(world.stdin[n]), 1, k)
                   ELSE loc.sent = C11_Forwarded(n)
            /\ (Done /\ ~Printed("Error") /\ ~Printed("Disconnected.")) =>
                   /\ loc.unread = <<>>
                   /\ loc.sent = C11_Forwarded(Len(world.stdin))

\* two lines, the second without newline, were forwarded up to end-of-input
C11_Witness ==
    /\ Done
    /\ args.command = "stream"
    /\ world.stdin = << <<233, 10>>, <<97>> >>
    /\ loc.unread = <<>>
    /\ loc.sent = <<195, 169, 10, 97>>
    /\ loc.sock = "closed"
    /\ exitCode = Some(0)


\* the image command has processed a picture that is wider than high
C12_LandscapeProcessed ==
    /\ args.command = "image"
    /\ world.has_pillow
    /\ pc \in {"image_post", "done"}
    /\ loc.has_pillow # None
    /\ C10_Source # None
    /\ C10_Source[1].kind \in {"jpeg", "png"}
    /\ C10_Source[1].w > C10_Source[1].h

\* C12 as stated: a picture with width > height leaves the contain-fit resize
\* with width 960, or with its own width when that is smaller (no upscaling),
\* with the height scaled in proportion (to the nearest pixel), and with no
\* dimension above 960.
C12_ContainFit ==
    C12_LandscapeProcessed =>
        LET src == C10_Source[1]
            res == loc.img_data[1]
            width == IF src.w < 960 THEN src.w ELSE 960
        IN  /\ res.w = width
            /\ 2 * res.h * src.w <= 2 * src.h * width + src.w
            /\ 2 * res.h * src.w >= 2 * src.h * width - src.w
            /\ res.w <= 960 /\ res.h <= 960


\* the zoom the claim asks for, from the command line and the geocoder's data
C13_Expected ==
    IF args.zoom # None THEN args.zoom[1]
    ELSE IF args.location = None \/ args.location = Some("") THEN 15
    ELSE IF world.geo[1].bbox = None THEN 14
    ELSE BBoxZoom(world.geo[1].bbox[1])

\* C13: the zoom of every tile request is the pinned zoom when one was given
\* (0 included), with or without a location; otherwise the bounding-box table
\* for a location with a box, 14 for a location without one, and 15 for
\* explicit coordinates without location.
C13_ZoomPrecedence ==
    args.command = "map" =>
        \A c \in CallsTo("tiles") : c.body.zoom = C13_Expected

\* a location without bounding box and without pinned zoom was requested at 14
C13_Witness ==
    /\ args.command = "map"
    /\ args.zoom = None
    /\ args.location = Some("Berlin")
    /\ world.geo = Some(GeoResult(None, None, BerlinPoint))
    /\ \E c \in CallsTo("tiles") : c.body.zoom = 14

\* a zoom of 0 pinned together with a location was requested as 0
C13_WitnessPinned ==
    /\ args.command = "map"
    /\ args.zoom = Some(0)
    /\ args.location = Some("Berlin")
    /\ \E c \in CallsTo("tiles") : c.body.zoom = 0

\* C14 as stated: a finished map run has printed "Invalid API key" exactly
\* when the tile service answered the tile fetch with 401; an answer of the
\* device to the upload is never reported that way.
C14_InvalidKeyOnlyFromTiles ==
    (args.command = "map" /\ Done) =>
        ( Printed("Error: Invalid API key.")
            <=> \E c \in CallsTo("tiles") : c.outcome = Response(401) )

====
